---- MODULE Spec2Model ----
(***************************************************************************)
(* Model of chatbot.py: the start-up path (module imports, __main__), the  *)
(* Streamlit front end (main), the terminal front end (CLIChatbot.run) and *)
(* the prompt assembly of AnthropicChatbot.get_response.                   *)
(*                                                                         *)
(* Texts are sequences of one-character strings, so that str.strip() and   *)
(* str.lower() are computed and not assumed.                               *)
(***************************************************************************)
EXTENDS Integers, Sequences, FiniteSets, TLC

VARIABLES
    pc,                 \* position of the process: load, entry, fallback, widget, cli, api, crashed, exited
    streamlitInstalled, \* whether `import streamlit` can succeed in this environment
    envKey,             \* os.environ["ANTHROPIC_API_KEY"] ("" when unset)
    sidebar,            \* values of the Streamlit sidebar widgets
    config,             \* the ChatbotConfig of the chatbot object in use, NoConfig when there is none
    transcript,         \* st.session_state.messages (widget) / self.chat_history (cli)
    invoked,            \* the model calls made by the last step: <<>> or <<request>>
    lastOp              \* record of the last operation and of what the user was shown

vars == <<pc, streamlitInstalled, envKey, sidebar, config, transcript, invoked, lastOp>>

-----------------------------------------------------------------------------
(* Bounds *)

MaxTurns == 4
MaxHistory == 2

-----------------------------------------------------------------------------
(* Texts *)

Whitespace == {" ", "\t"}

UpperLetters == <<"A","B","C","D","E","F","G","H","I","J","K","L","M",
                  "N","O","P","Q","R","S","T","U","V","W","X","Y","Z">>
LowerLetters == <<"a","b","c","d","e","f","g","h","i","j","k","l","m",
                  "n","o","p","q","r","s","t","u","v","w","x","y","z">>

\* str.lower() on one character
LowerChar(c) ==
    IF \E i \in 1..Len(UpperLetters) : UpperLetters[i] = c
    THEN LowerLetters[CHOOSE i \in 1..Len(UpperLetters) : UpperLetters[i] = c]
    ELSE c

\* variant: the comparison text keeps its letter case
LowerKeepsCase(s) == s

\* str.lower()
Lower(s) == [i \in 1..Len(s) |-> LowerChar(s[i])]

\* str.strip(): drop leading and trailing whitespace
RECURSIVE LStrip(_)
LStrip(s) ==
    IF s # <<>> /\ s[1] \in Whitespace THEN LStrip(Tail(s)) ELSE s

RECURSIVE RStrip(_)
RStrip(s) ==
    IF s # <<>> /\ s[Len(s)] \in Whitespace
    THEN RStrip(SubSeq(s, 1, Len(s) - 1)) ELSE s

Strip(s) == RStrip(LStrip(s))

QuitWord == <<"q","u","i","t">>
ClearWord == <<"c","l","e","a","r">>

\* lines typed at the terminal prompt
TerminalLines ==
    { <<>>, <<" ">>, <<"\t"," ">>,
      <<"h","i">>, <<" ","H","i"," ">>,
      <<"q","u","i","t">>, <<" ","Q","u","I","t">>,
      <<"c","l","e","a","r">>, <<"C","L","E","A","R"," ">> }

\* values returned by st.chat_input (<<>> stands for None: nothing submitted)
ChatPrompts == { <<>>, <<" ">>, <<"H","i">> }

\* texts returned by the model
Replies == { <<"o","k">>, <<"n","o">> }

NoText == <<>>

-----------------------------------------------------------------------------
(* Configuration *)

\* ChatbotConfig.system_prompt and the sidebar default, abbreviated
DefaultSystemPrompt == <<"D">>
SidebarSystemPrompt == <<"S">>

ChatbotConfig ==
    [ model_name    |-> "claude-3-sonnet-20240229",
      temperature   |-> 7,          \* tenths: 0.7
      max_tokens    |-> 1000,
      system_prompt |-> DefaultSystemPrompt ]

ApiKeys == {"", "sk"}
ModelChoices == {"claude-3-sonnet-20240229", "claude-3-opus-20240229"}
Temperatures == {7, 0}
MaxTokensChoices == {1000, 100}
SystemPrompts == {SidebarSystemPrompt, <<>>}

Sidebars ==
    [ api_key : ApiKeys, model_choice : ModelChoices, temperature : Temperatures,
      max_tokens : MaxTokensChoices, system_prompt : SystemPrompts ]

\* widget values on the first script run
SidebarDefaults ==
    [ api_key       |-> "",
      model_choice  |-> "claude-3-sonnet-20240229",
      temperature   |-> 7,
      max_tokens    |-> 1000,
      system_prompt |-> SidebarSystemPrompt ]

\* variant: the sidebar's system prompt is not copied into the config
BuildConfigKeepsDefaultPrompt(sb) ==
    [ ChatbotConfig EXCEPT
        !.model_name    = sb.model_choice,
        !.temperature   = sb.temperature,
        !.max_tokens    = sb.max_tokens ]

\* config = ChatbotConfig(); config.model_name = model_choice; ...
BuildConfig(sb) ==
    [ ChatbotConfig EXCEPT
        !.model_name    = sb.model_choice,
        !.temperature   = sb.temperature,
        !.max_tokens    = sb.max_tokens,
        !.system_prompt = sb.system_prompt ]

Configs ==
    [ model_name : ModelChoices, temperature : Temperatures,
      max_tokens : MaxTokensChoices, system_prompt : SystemPrompts ]

\* no chatbot has been constructed
NoConfig ==
    [ model_name |-> "", temperature |-> 0, max_tokens |-> 0, system_prompt |-> <<>> ]

\* main(): the chatbot is built only when the sidebar holds an API key
RerunConfig(sb) == IF sb.api_key # "" THEN BuildConfig(sb) ELSE NoConfig

-----------------------------------------------------------------------------
(* Turns, messages and the model call *)

Turn(r, c) == [role |-> r, content |-> c]

\* HumanMessage / AIMessage / SystemMessage, named by the role they carry
HumanMessage(c) == [role |-> "user", content |-> c]
AIMessage(c) == [role |-> "assistant", content |-> c]
SystemMessage(c) == [role |-> "system", content |-> c]

\* the loop of get_response that converts chat_history
ConvertHistory(chat_history) ==
    [ i \in 1..Len(chat_history) |->
        IF chat_history[i].role = "user"
        THEN HumanMessage(chat_history[i].content)
        ELSE AIMessage(chat_history[i].content) ]

\* the prompt template: system message, chat_history placeholder, ("human", "{input}")
PromptTemplate(system_prompt, messages, input) ==
    <<SystemMessage(system_prompt)>> \o messages \o <<HumanMessage(input)>>

\* what chain.invoke receives from get_response, with the llm's parameters
GetResponseRequest(cfg, user_input, chat_history) ==
    [ messages    |-> PromptTemplate(cfg.system_prompt,
                                     ConvertHistory(chat_history), user_input),
      model       |-> cfg.model_name,
      temperature |-> cfg.temperature,
      max_tokens  |-> cfg.max_tokens ]

\* outcomes of chain.invoke: a reply, or an exception
Outcomes ==
    [kind : {"ok"}, reply : Replies] \cup [kind : {"error"}, reply : {NoText}]

Op(op, line, input, outcome, shown, prev) ==
    [ op |-> op, line |-> line, input |-> input, outcome |-> outcome.kind,
      reply |-> outcome.reply, shown |-> shown, prev |-> prev ]

NoOutcome == [kind |-> "none", reply |-> NoText]

\* what the previous operation was, as the next one remembers it
Kind(o) == IF o.op = "submit" THEN o.outcome ELSE o.op

-----------------------------------------------------------------------------
(* Start-up *)

Init ==
    /\ pc = "load"
    /\ streamlitInstalled \in BOOLEAN
    /\ envKey \in ApiKeys
    /\ sidebar = SidebarDefaults
    /\ config = NoConfig
    /\ transcript = <<>>
    /\ invoked = <<>>
    /\ lastOp = Op("start", NoText, NoText, NoOutcome, "none", "start")

\* the module-level imports: `import streamlit as st` is outside any try
LoadModule ==
    /\ pc = "load"
    /\ pc' = IF streamlitInstalled THEN "entry" ELSE "crashed"
    /\ UNCHANGED <<streamlitInstalled, envKey, sidebar, config, transcript, invoked, lastOp>>

\* the __main__ block: import streamlit again and call main()
MainRaises == {"none", "ImportError", "Exception"}

Entry(raised) ==
    /\ pc = "entry"
    /\ pc' = IF raised = "none" THEN "widget" ELSE "fallback"
    /\ UNCHANGED <<streamlitInstalled, envKey, sidebar, config, transcript, invoked, lastOp>>

\* cli_bot = CLIChatbot(): setup_llm raises ValueError without the key
CLIChatbotInit ==
    /\ pc = "fallback"
    /\ pc' = IF envKey = "" THEN "crashed" ELSE "cli"
    /\ config' = IF envKey = "" THEN NoConfig ELSE ChatbotConfig
    /\ transcript' = <<>>
    /\ UNCHANGED <<streamlitInstalled, envKey, sidebar, invoked, lastOp>>

-----------------------------------------------------------------------------
(* Streamlit front end: one action per script rerun *)

\* a sidebar widget changed
SidebarChange(sb) ==
    /\ pc = "widget"
    /\ sb # sidebar
    /\ sidebar' = sb
    /\ config' = RerunConfig(sb)
    /\ envKey' = IF sb.api_key # "" THEN sb.api_key ELSE envKey
    /\ invoked' = <<>>
    /\ lastOp' = Op("reconfigure", NoText, NoText, NoOutcome, "none", Kind(lastOp))
    /\ UNCHANGED <<pc, streamlitInstalled, transcript>>

\* variant: the clear keeps the first turn
WidgetClearKeepsFirst == IF transcript = <<>> THEN <<>> ELSE << transcript[1] >>

\* st.session_state.messages = []
WidgetClear == <<>>

ClearButton ==
    /\ pc = "widget"
    /\ transcript' = WidgetClear
    /\ invoked' = <<>>
    /\ lastOp' = Op("clear", NoText, NoText, NoOutcome, "none", Kind(lastOp))
    /\ config' = RerunConfig(sidebar)
    /\ UNCHANGED <<pc, streamlitInstalled, envKey, sidebar>>

\* st.session_state.messages.append({"role": "user", "content": prompt})
WidgetAppendUser(messages, prompt) == Append(messages, Turn("user", prompt))

\* variant: the whole list, new user turn included, is passed as history
WidgetHistoryArgWhole(messages) == messages

\* st.session_state.messages[:-1]
WidgetHistoryArg(messages) == SubSeq(messages, 1, Len(messages) - 1)

\* variant: the reply is shown but not stored
WidgetAppendAssistantDropped(messages, response) == messages

\* st.session_state.messages.append({"role": "assistant", "content": response})
WidgetAppendAssistant(messages, response) ==
    Append(messages, Turn("assistant", response))

\* the rerun in which st.chat_input returns prompt
ChatInput(prompt, outcome) ==
    /\ pc = "widget"
    /\ sidebar.api_key # ""
    /\ prompt # <<>> => Len(transcript) + 2 <= MaxTurns
    /\ IF prompt = <<>>
       THEN /\ invoked' = <<>>
            /\ lastOp' = Op("empty", prompt, NoText, NoOutcome, "none", Kind(lastOp))
            /\ UNCHANGED transcript
       ELSE LET appended == WidgetAppendUser(transcript, prompt)
            IN  /\ invoked' = << GetResponseRequest(RerunConfig(sidebar), prompt,
                                                    WidgetHistoryArg(appended)) >>
                /\ transcript' = IF outcome.kind = "ok"
                                 THEN WidgetAppendAssistant(appended, outcome.reply)
                                 ELSE appended
                /\ lastOp' = Op("submit", prompt, prompt, outcome,
                                IF outcome.kind = "ok" THEN "reply" ELSE "error",
                                Kind(lastOp))
    /\ config' = RerunConfig(sidebar)
    /\ UNCHANGED <<pc, streamlitInstalled, envKey, sidebar>>

-----------------------------------------------------------------------------
(* Terminal front end: one action per iteration of the while loop *)

\* self.chat_history = []
CliClear == <<>>

\* variant: the two appends in the opposite order
CliUpdateHistorySwapped(chat_history, user_input, response) ==
    Append(Append(chat_history, Turn("assistant", response)),
           Turn("user", user_input))

\* the two appends after a successful get_response
CliUpdateHistory(chat_history, user_input, response) ==
    Append(Append(chat_history, Turn("user", user_input)),
           Turn("assistant", response))

CliRun(line, outcome) ==
    /\ pc = "cli"
    /\ LET user_input == Strip(line)
       IN  IF Lower(user_input) = QuitWord
           THEN /\ pc' = "exited"
                /\ invoked' = <<>>
                /\ lastOp' = Op("quit", line, user_input, NoOutcome, "none", Kind(lastOp))
                /\ UNCHANGED transcript
           ELSE IF Lower(user_input) = ClearWord
           THEN /\ transcript' = CliClear
                /\ invoked' = <<>>
                /\ lastOp' = Op("clear", line, user_input, NoOutcome, "none", Kind(lastOp))
                /\ UNCHANGED pc
           ELSE IF user_input = <<>>
           THEN /\ invoked' = <<>>
                /\ lastOp' = Op("empty", line, user_input, NoOutcome, "none", Kind(lastOp))
                /\ UNCHANGED <<pc, transcript>>
           ELSE /\ Len(transcript) + 2 <= MaxTurns
                /\ invoked' = << GetResponseRequest(config, user_input, transcript) >>
                /\ transcript' = IF outcome.kind = "ok"
                                 THEN CliUpdateHistory(transcript, user_input, outcome.reply)
                                 ELSE transcript
                /\ lastOp' = Op("submit", line, user_input, outcome,
                                IF outcome.kind = "ok" THEN "reply" ELSE "error",
                                Kind(lastOp))
                /\ UNCHANGED pc
    /\ UNCHANGED <<streamlitInstalled, envKey, sidebar, config>>

-----------------------------------------------------------------------------

Next ==
    \/ LoadModule
    \/ \E raised \in MainRaises : Entry(raised)
    \/ CLIChatbotInit
    \/ \E sb \in Sidebars : SidebarChange(sb)
    \/ ClearButton
    \/ \E prompt \in ChatPrompts, outcome \in Outcomes : ChatInput(prompt, outcome)
    \/ \E line \in TerminalLines, outcome \in Outcomes : CliRun(line, outcome)

Spec == Init /\ [][Next]_vars

-----------------------------------------------------------------------------
(* Direct callers of AnthropicChatbot.get_response: any history, any config *)

Roles == {"user", "assistant", "system"}
HistoryTexts == { <<"a">>, <<>> }
HistoryTurns == [role : Roles, content : HistoryTexts]

RECURSIVE SeqsUpTo(_, _)
SeqsUpTo(S, n) ==
    IF n = 0 THEN { <<>> }
    ELSE LET shorter == SeqsUpTo(S, n - 1)
         IN  shorter \cup { Append(h, x) : h \in shorter, x \in S }

Histories == SeqsUpTo(HistoryTurns, MaxHistory)

InitApi ==
    /\ pc = "api"
    /\ streamlitInstalled = TRUE
    /\ envKey = "sk"
    /\ sidebar = SidebarDefaults
    /\ config \in Configs
    /\ transcript \in Histories
    /\ invoked = <<>>
    /\ lastOp = Op("start", NoText, NoText, NoOutcome, "none", "start")

\* chatbot.get_response(user_input, chat_history)
GetResponse(user_input, outcome) ==
    /\ pc = "api"
    /\ invoked' = << GetResponseRequest(config, user_input, transcript) >>
    /\ lastOp' = Op("call", user_input, user_input, outcome,
                    IF outcome.kind = "ok" THEN "reply" ELSE "error", Kind(lastOp))
    /\ UNCHANGED <<pc, streamlitInstalled, envKey, sidebar, config, transcript>>

NextApi == \E user_input \in ChatPrompts, outcome \in Outcomes : GetResponse(user_input, outcome)

SpecApi == InitApi /\ [][NextApi]_vars

-----------------------------------------------------------------------------
(* Vocabulary of the properties *)

IsBlank(s) == \A i \in 1..Len(s) : s[i] \in Whitespace

\* core is line without its surrounding whitespace
TrimOf(line, core) ==
    \E i \in 0..Len(line), j \in 0..Len(line) :
        /\ i + j <= Len(line)
        /\ core = SubSeq(line, i + 1, Len(line) - j)
        /\ \A k \in 1..i : line[k] \in Whitespace
        /\ \A k \in (Len(line) - j + 1)..Len(line) : line[k] \in Whitespace
        /\ core # <<>> => core[1] \notin Whitespace /\ core[Len(core)] \notin Whitespace

\* s spells word, letter case aside
SameIgnoringCase(s, word) ==
    /\ Len(s) = Len(word)
    /\ \A k \in 1..Len(word) :
          \/ s[k] = word[k]
          \/ \E i \in 1..Len(LowerLetters) :
                LowerLetters[i] = word[k] /\ UpperLetters[i] = s[k]

\* line is the reserved command word, after trimming and case-insensitively
IsCommand(line, word) ==
    \E a \in 1..(Len(line) + 1), b \in 0..Len(line) :
        TrimOf(line, SubSeq(line, a, b)) /\ SameIgnoringCase(SubSeq(line, a, b), word)

IsReserved(line) == IsCommand(line, QuitWord) \/ IsCommand(line, ClearWord)

Running == pc \in {"widget", "cli"}

SubmitDone(o) == o.op = "submit"

Alternates(t) ==
    \A i \in 1..Len(t) : t[i].role = (IF i % 2 = 1 THEN "user" ELSE "assistant")

EndsWithAssistant(t) == t # <<>> /\ t[Len(t)].role = "assistant"

-----------------------------------------------------------------------------
(* Properties *)

\* C1: a submit whose model call succeeds appends exactly two turns, the user
\* turn holding the submitted text and then the assistant turn holding the
\* reply, and leaves every earlier turn as it was, in both front ends.
C1_SuccessAppendsUserThenAssistant ==
    [][ (SubmitDone(lastOp') /\ lastOp'.outcome = "ok") =>
          /\ lastOp'.input # <<>>
          /\ Len(transcript') = Len(transcript) + 2
          /\ transcript' = transcript \o << Turn("user", lastOp'.input),
                                            Turn("assistant", lastOp'.reply) >>
          /\ lastOp'.reply \in Replies ]_vars

C1_Witness ==
    /\ pc = "widget"
    /\ SubmitDone(lastOp) /\ lastOp.outcome = "ok" /\ lastOp.prev = "ok"
    /\ Len(transcript) = 4

\* C2: when the model call raises, the transcript afterwards is the earlier
\* transcript plus one trailing user turn holding the submitted text, no
\* assistant turn is added, and the error is shown while the front end keeps
\* running, in both front ends.
C2_FailureKeepsUserTurn ==
    [][ (SubmitDone(lastOp') /\ lastOp'.outcome = "error") =>
          /\ transcript' = Append(transcript, Turn("user", lastOp'.input))
          /\ lastOp'.shown = "error"
          /\ pc' = pc ]_vars

\* C3: a text that is empty or only whitespace leaves the transcript
\* unchanged and makes no model call, in both front ends.
C3_BlankIsNoOp ==
    [][ (Running /\ lastOp'.op \in {"submit", "empty"} /\ IsBlank(lastOp'.line)) =>
          /\ transcript' = transcript
          /\ invoked' = <<>> ]_vars

\* C4: get_response hands the model one system message first, then one
\* message per history turn in order with the turn's own role (user,
\* assistant or system), then one trailing user message with the new text.
C4_AssembledSequence ==
    lastOp.op = "call" =>
        /\ Len(invoked) = 1
        /\ LET m == invoked[1].messages
           IN  /\ Len(m) = Len(transcript) + 2
               /\ m[1] = [role |-> "system", content |-> config.system_prompt]
               /\ \A i \in 1..Len(transcript) :
                     m[i + 1] = [role |-> transcript[i].role,
                                 content |-> transcript[i].content]
               /\ m[Len(m)] = [role |-> "user", content |-> lastOp.input]

\* the first submit of a fresh session leaves these turns
FirstTranscript(frontEnd, o) ==
    IF o.outcome = "ok"
    THEN << Turn("user", o.input), Turn("assistant", o.reply) >>
    ELSE IF frontEnd = "widget" THEN << Turn("user", o.input) >> ELSE <<>>

\* a session that is new, or was just cleared, and at most reconfigured since
FreshOrCleared(o) ==
    \/ o.op \in {"start", "clear"}
    \/ o.op = "reconfigure" /\ o.prev \in {"start", "clear"}

\* C5: a clear leaves an empty transcript whatever came before, and the
\* submit that follows sends exactly [system, user t] and leaves the
\* transcript that the first submit of a fresh session leaves.
C5_ClearThenSubmitIsFresh ==
    [][ /\ lastOp'.op = "clear" => Len(transcript') = 0
        /\ (FreshOrCleared(lastOp) /\ SubmitDone(lastOp')) =>
              /\ Len(invoked') = 1
              /\ invoked'[1].messages =
                    << [role |-> "system", content |-> config'.system_prompt],
                       [role |-> "user", content |-> lastOp'.input] >>
              /\ transcript' = FirstTranscript(pc, lastOp') ]_vars

C5_Witness ==
    /\ pc = "widget"
    /\ SubmitDone(lastOp) /\ lastOp.prev = "clear"
    /\ Len(transcript) = 2

\* C6: in the terminal loop 'clear' (trimmed, any letter case) empties the
\* transcript without a model call, 'quit' ends the loop for good, every
\* other non-blank line makes exactly one model call for its trimmed text,
\* and the two command words never reach the model or the transcript.
C6_TerminalDispatch ==
    [][ /\ pc # "exited"
        /\ pc = "cli" =>
              /\ IsCommand(lastOp'.line, ClearWord) =>
                    transcript' = <<>> /\ invoked' = <<>> /\ pc' = "cli"
              /\ IsCommand(lastOp'.line, QuitWord) =>
                    pc' = "exited" /\ invoked' = <<>> /\ transcript' = transcript
              /\ (~IsReserved(lastOp'.line) /\ ~IsBlank(lastOp'.line)) =>
                    /\ Len(invoked') = 1
                    /\ LET m == invoked'[1].messages
                       IN  /\ m[Len(m)].role = "user"
                           /\ TrimOf(lastOp'.line, m[Len(m)].content)
                    /\ pc' = "cli"
              /\ \A i \in 1..Len(invoked') :
                    \A k \in 2..Len(invoked'[i].messages) :
                        ~IsReserved(invoked'[i].messages[k].content)
              /\ \A i \in 1..Len(transcript') : ~IsReserved(transcript'[i].content) ]_vars

C6_Witness ==
    /\ pc = "exited"
    /\ lastOp.line = <<" ","Q","u","I","t">>
    /\ lastOp.prev = "clear"

\* C7: start-up ends in a front end: when the widget front end is not
\* available (streamlit cannot be imported, or main() raises) the terminal
\* loop is started.
C7_FallsBackToTerminal ==
    /\ pc # "crashed"
    /\ (~streamlitInstalled /\ pc # "load") => pc \in {"cli", "exited"}

\* C8: every submit sends the transcript as it was before the submit, whole
\* and in order, followed by the new text once as the final user message.
C8_PriorHistoryPlusNewText ==
    [][ SubmitDone(lastOp') =>
          /\ Len(invoked') = 1
          /\ LET m == invoked'[1].messages
             IN  /\ Len(m) = Len(transcript) + 2
                 /\ m[1].role = "system"
                 /\ \A i \in 1..Len(transcript) : m[i + 1] = transcript[i]
                 /\ m[Len(m)] = [role |-> "user", content |-> lastOp'.input] ]_vars

C8_Witness ==
    /\ pc = "widget"
    /\ SubmitDone(lastOp)
    /\ Len(invoked) = 1 /\ Len(invoked[1].messages) >= 4

\* C9: a change of the sidebar configuration leaves the transcript alone,
\* the next submit sends the new system instruction, the whole earlier
\* transcript and the new text under the new generation parameters, and a
\* clear leaves the configuration alone.
C9_ReconfigureAndClearFrames ==
    [][ /\ lastOp'.op = "reconfigure" => transcript' = transcript
        /\ (pc = "widget" /\ SubmitDone(lastOp')) =>
              /\ Len(invoked') = 1
              /\ invoked'[1].messages =
                    << [role |-> "system", content |-> sidebar.system_prompt] >>
                    \o transcript
                    \o << [role |-> "user", content |-> lastOp'.input] >>
              /\ invoked'[1].model = sidebar.model_choice
              /\ invoked'[1].temperature = sidebar.temperature
              /\ invoked'[1].max_tokens = sidebar.max_tokens
        /\ lastOp'.op = "clear" =>
              transcript' = <<>> /\ sidebar' = sidebar /\ config' = config ]_vars

C9_Witness ==
    /\ pc = "widget"
    /\ SubmitDone(lastOp) /\ lastOp.prev = "reconfigure"
    /\ Len(transcript) >= 3
    /\ sidebar.model_choice # SidebarDefaults.model_choice
    /\ sidebar.temperature # SidebarDefaults.temperature
    /\ sidebar.max_tokens # SidebarDefaults.max_tokens
    /\ sidebar.system_prompt # SidebarDefaults.system_prompt

\* C10 as stated: in every reachable state the turns alternate user,
\* assistant, ... from a user turn, and after a successful submit the
\* transcript ends with an assistant turn.
C10_StrictAlternation ==
    /\ Alternates(transcript)
    /\ (SubmitDone(lastOp) /\ lastOp.outcome = "ok") => EndsWithAssistant(transcript)

\* C10 amended: the transcript starts with a user turn, every assistant turn
\* directly follows a user turn, after a successful submit the transcript
\* ends with an assistant turn, and in the terminal front end the turns
\* alternate strictly.
C10_AssistantFollowsUser ==
    /\ \A i \in 1..Len(transcript) :
          /\ transcript[i].role \in {"user", "assistant"}
          /\ transcript[i].role = "assistant" => (i > 1 /\ transcript[i - 1].role = "user")
    /\ transcript # <<>> => transcript[1].role = "user"
    /\ (SubmitDone(lastOp) /\ lastOp.outcome = "ok") => EndsWithAssistant(transcript)
    /\ pc \in {"cli", "exited"} => Alternates(transcript)

C10_Witness ==
    /\ pc = "widget"
    /\ SubmitDone(lastOp) /\ lastOp.outcome = "ok" /\ lastOp.prev = "error"
    /\ Len(transcript) = 3
    /\ transcript[1].role = "user" /\ transcript[2].role = "user"

====
